---------------------------- MODULE Spec2Model ----------------------------
(***************************************************************************)
(* LEGALEASE (src/app1.py): a Flask service with three routes.             *)
(*   GET  /              the static page                                   *)
(*   POST /summarize     sanitize the text, call the chat-completion API   *)
(*   POST /download-pdf  lay a summary out as a PDF element list           *)
(* Requests pass Flask-Limiter (fixed window, in-memory storage) before    *)
(* the view function runs.  Strings are modelled as tuples of one-         *)
(* character strings so that sanitizing, lower-casing, splitting and       *)
(* substring tests are computed character by character.                    *)
(***************************************************************************)
EXTENDS Naturals, Sequences, FiniteSets, TLC

VARIABLES
  storage,   \* limiter storage: key -> [count, ttl]; ttl = time left to expiry
  req,       \* the last request: [route, client, body]
  reply,     \* what the chat-completion API answers during the last request
  resp,      \* the last response
  outbound,  \* the chat-completion requests sent while handling the last request
  elements,  \* the element list generate_pdf built for the last request
  returned,  \* summaries that /summarize has returned so far (history)
  ages,      \* ages of the latest /summarize calls, newest first (history)
  arg,       \* argument of a direct call of sanitize_text
  ret        \* result of that call: <<>> before it returns, <<value>> after

vars == <<storage, req, reply, resp, outbound, elements, returned, ages, arg, ret>>

----------------------------------------------------------------------------
(* Bounds of the model *)

MaxLen == 4            \* longest argument of a direct sanitize_text call
MaxTextLen == 2        \* longest "text" field SpecSummarize submits
MaxBodyLen == 1        \* longest "text" / "summary" field Spec submits
MaxOver == 1           \* hits modelled beyond a limit within one window
TicksPerMinute == 2    \* clock instants per minute
MaxHits == 8           \* requests per behaviour of SpecFrame

----------------------------------------------------------------------------
(* Characters and strings *)

SP == " "
NL == "\n"
TAB == "\t"

\* the characters Python's \s and str.strip() treat as whitespace
Whitespace == {SP, NL, TAB}

Alphabet == {"a", SP, NL}
WideAlphabet == {"a", SP, NL, TAB}

RECURSIVE StringsOver(_, _)
StringsOver(A, n) ==
  IF n = 0 THEN {<<>>}
  ELSE LET shorter == StringsOver(A, n - 1)
       IN  shorter \cup {<<c>> \o s : c \in A, s \in {t \in shorter : Len(t) = n - 1}}

\* Python's "needle in hay"
Contains(hay, needle) ==
  \E i \in 0..Len(hay) :
    i + Len(needle) <= Len(hay) /\ SubSeq(hay, i + 1, i + Len(needle)) = needle

UpperCase == <<"A", "B", "C", "E", "G", "L", "O", "P", "S", "T">>
LowerCase == <<"a", "b", "c", "e", "g", "l", "o", "p", "s", "t">>

\* str.lower() on one character
LowerChar(c) ==
  IF \E i \in 1..Len(UpperCase) : UpperCase[i] = c
  THEN LowerCase[CHOOSE i \in 1..Len(UpperCase) : UpperCase[i] = c]
  ELSE c

\* str.lower()
Lower(s) == [i \in 1..Len(s) |-> LowerChar(s[i])]

----------------------------------------------------------------------------
(* sanitize_text: re.sub(r"\s+", " ", text).strip() *)

RECURSIVE SkipSpace(_)
SkipSpace(s) ==
  IF s # <<>> /\ Head(s) \in Whitespace THEN SkipSpace(Tail(s)) ELSE s

\* re.sub(r"\s+", " ", text): every maximal whitespace run becomes one space
RECURSIVE CollapseRuns(_)
CollapseRuns(s) ==
  IF s = <<>> THEN <<>>
  ELSE IF Head(s) \in Whitespace THEN <<SP>> \o CollapseRuns(SkipSpace(s))
  ELSE <<Head(s)>> \o CollapseRuns(Tail(s))

\* a plausible slip: r"\s" instead of r"\s+" replaces each character alone
CollapseEach(s) == [i \in 1..Len(s) |-> IF s[i] \in Whitespace THEN SP ELSE s[i]]

RECURSIVE RStrip(_)
RStrip(s) ==
  IF s # <<>> /\ s[Len(s)] \in Whitespace THEN RStrip(SubSeq(s, 1, Len(s) - 1)) ELSE s

\* str.strip()
Strip(s) == RStrip(SkipSpace(s))

\* sanitize_text with that slip
sanitize_text_each(text) == Strip(CollapseEach(text))

\* re.sub(r"\s+", " ", text).strip()
sanitize_text(text) == Strip(CollapseRuns(text))

----------------------------------------------------------------------------
(* SUMMARY_LEVELS and the summarization client *)

BriefOverview ==
  <<"B", "r", "i", "e", "f", SP, "O", "v", "e", "r", "v", "i", "e", "w">>

StandardSummary ==
  <<"S", "t", "a", "n", "d", "a", "r", "d", SP, "S", "u", "m", "m", "a",
     "r", "y">>

ComprehensiveAnalysis ==
  <<"C", "o", "m", "p", "r", "e", "h", "e", "n", "s", "i", "v", "e", SP,
     "A", "n", "a", "l", "y", "s", "i", "s">>

SUMMARY_LEVELS ==
  [short |-> BriefOverview, medium |-> StandardSummary,
   detailed |-> ComprehensiveAnalysis]

\* level values a client may send; "bogus" stands for any unrecognized string
LevelValues == {"short", "medium", "detailed", "bogus"}

ProvideA == <<"P", "r", "o", "v", "i", "d", "e", SP, "a", SP>>

ColonBreak == <<":", NL, NL>>

\* a plausible slip: the label is embedded without .lower()
UserContentNoLower(text, level) ==
  ProvideA \o SUMMARY_LEVELS[level] \o ColonBreak \o text

\* f"Provide a {SUMMARY_LEVELS[level].lower()}:\n\n{text}"
UserContent(text, level) ==
  ProvideA \o Lower(SUMMARY_LEVELS[level]) \o ColonBreak \o text

\* the JSON body of the chat-completion request
ChatBody(text, level) ==
  [model |-> "llama-3.1-70b-versatile",
   temperature |-> "0.3",
   messages |-> << [role |-> "system",
                    content |-> "You are a legal document expert. Summarize clearly, preserving legal conditions, exceptions, and qualifiers."],
                   [role |-> "user", content |-> UserContent(text, level)] >>]

\* answers of the external API to one POST
NoReply == [kind |-> "none", content |-> <<>>]

Replies ==
  { [kind |-> "ok", content |-> <<"a">>],
    [kind |-> "connection_error", content |-> <<>>],
    [kind |-> "timeout", content |-> <<>>],
    [kind |-> "http_error", content |-> <<>>],
    [kind |-> "malformed", content |-> <<>>] }

\* a plausible slip: one more POST when the first one fails
summarize_with_groq_retry(text, level, rep) ==
  IF level \notin DOMAIN SUMMARY_LEVELS
  THEN [raised |-> "KeyError", value |-> <<>>, sent |-> <<>>]
  ELSE IF rep.kind = "ok"
  THEN [raised |-> "", value |-> rep.content, sent |-> <<ChatBody(text, level)>>]
  ELSE [raised |-> "RequestException", value |-> <<>>,
        sent |-> <<ChatBody(text, level), ChatBody(text, level)>>]

\* the dictionary lookup raises before anything is sent; requests.post,
\* raise_for_status and the subscripts of r.json() raise after the one POST
summarize_with_groq(text, level, rep) ==
  IF level \notin DOMAIN SUMMARY_LEVELS
  THEN [raised |-> "KeyError", value |-> <<>>, sent |-> <<>>]
  ELSE LET sent == <<ChatBody(text, level)>>
       IN  CASE rep.kind = "ok" ->
                  [raised |-> "", value |-> rep.content, sent |-> sent]
             [] rep.kind \in {"connection_error", "timeout"} ->
                  [raised |-> "RequestException", value |-> <<>>, sent |-> sent]
             [] rep.kind = "http_error" ->
                  [raised |-> "HTTPError", value |-> <<>>, sent |-> sent]
             [] OTHER ->
                  [raised |-> "KeyError", value |-> <<>>, sent |-> sent]

----------------------------------------------------------------------------
(* generate_pdf *)

TitleText == <<"L", "E", "G", "A", "L", "E", "A", "S", "E">>

SubtitlePrefix ==
  <<"S", "u", "m", "m", "a", "r", "y", SP, "L", "e", "v", "e", "l", ":",
     SP>>

DisclaimerText ==
  <<"T", "h", "i", "s", SP, "d", "o", "c", "u", "m", "e", "n", "t", SP,
     "i", "s", SP, "f", "o", "r", SP, "i", "n", "f", "o", "r", "m", "a",
     "t", "i", "o", "n", "a", "l", SP, "p", "u", "r", "p", "o", "s", "e",
     "s", SP, "o", "n", "l", "y", SP, "a", "n", "d", SP, "n", "o", "t",
     SP, "l", "e", "g", "a", "l", SP, "a", "d", "v", "i", "c", "e", ".">>

Paragraph(text, style) ==
  [kind |-> "Paragraph", text |-> text, style |-> style, height |-> 0]

Spacer(height) ==
  [kind |-> "Spacer", text |-> <<>>, style |-> "", height |-> height]

\* str.split("\n"): one segment more than there are newlines, "" gives [""]
RECURSIVE SplitLines(_)
SplitLines(s) ==
  IF \E i \in 1..Len(s) : s[i] = NL
  THEN LET i == CHOOSE k \in 1..Len(s) :
                  s[k] = NL /\ \A j \in 1..(k - 1) : s[j] # NL
       IN  <<SubSeq(s, 1, i - 1)>> \o SplitLines(SubSeq(s, i + 1, Len(s)))
  ELSE <<s>>

\* for p in summary.split("\n"): a body paragraph and a spacer
RECURSIVE BodyElements(_)
BodyElements(segments) ==
  IF segments = <<>> THEN <<>>
  ELSE <<Paragraph(Head(segments), "body"), Spacer(8)>>
         \o BodyElements(Tail(segments))

\* the element list handed to doc.build, or the KeyError of the label lookup
generate_pdf(summary, level) ==
  IF level \notin DOMAIN SUMMARY_LEVELS
  THEN [raised |-> "KeyError", elements |-> <<>>]
  ELSE [raised |-> "",
        elements |->
          <<Paragraph(TitleText, "title"), Spacer(12),
            Paragraph(SubtitlePrefix \o SUMMARY_LEVELS[level], "Italic"),
            Spacer(20)>>
          \o BodyElements(SplitLines(summary))
          \o <<Spacer(20), Paragraph(DisclaimerText, "Italic")>>]

----------------------------------------------------------------------------
(* The view functions.  A request body is a JSON object: a function from   *)
(* the field names it carries to their values.                             *)

\* dict.get(key, default)
Get(data, key, default) == IF key \in DOMAIN data THEN data[key] ELSE default

\* the JSON objects with an optional string field `field` and an optional level
Bodies(field, strings) ==
  {<<>>}
    \cup {[f \in {field} |-> t] : t \in strings}
    \cup {[f \in {"level"} |-> l] : l \in LevelValues}
    \cup {[f \in {field, "level"} |-> IF f = "level" THEN tl[2] ELSE tl[1]] :
            tl \in strings \X LevelValues}

Response(status, kind, summary, error) ==
  [status |-> status, kind |-> kind, summary |-> summary, error |-> error]

\* Flask answers an exception no handler catches with 500
InternalServerError(exc) == Response(500, "exception", <<>>, exc)

\* a plausible slip: another default for the level
RequestLevelShort(data) == Get(data, "level", "short")

\* data.get("level", "medium")
RequestLevel(data) == Get(data, "level", "medium")

\* sanitize_text(data.get("text", ""))
RequestText(data) == sanitize_text(Get(data, "text", <<>>))

\* a plausible slip: the client is called before the text is validated
summarize_unchecked(data, rep) ==
  LET r == summarize_with_groq(RequestText(data), RequestLevel(data), rep)
  IN  [resp |-> IF r.raised # "" THEN InternalServerError(r.raised)
                ELSE Response(200, "summary", r.value, ""),
       outbound |-> r.sent, elements |-> <<>>]

\* the view function of POST /summarize
summarize(data, rep) ==
  LET text == RequestText(data)
      level == RequestLevel(data)
  IN  IF text = <<>>
      THEN [resp |-> Response(400, "error", <<>>, "Text required"),
            outbound |-> <<>>, elements |-> <<>>]
      ELSE LET r == summarize_with_groq(text, level, rep)
           IN  [resp |-> IF r.raised # "" THEN InternalServerError(r.raised)
                         ELSE Response(200, "summary", r.value, ""),
                outbound |-> r.sent, elements |-> <<>>]

\* a plausible slip: a PDF only for a summary that /summarize has returned
download_pdf_checked(data) ==
  IF Get(data, "summary", <<>>) \notin returned
  THEN [resp |-> Response(400, "error", <<>>, "Unknown summary"),
        outbound |-> <<>>, elements |-> <<>>]
  ELSE LET pdf == generate_pdf(Get(data, "summary", <<>>), Get(data, "level", "medium"))
       IN  [resp |-> IF pdf.raised # "" THEN InternalServerError(pdf.raised)
                     ELSE Response(200, "pdf", <<>>, ""),
            outbound |-> <<>>, elements |-> pdf.elements]

\* the view function of POST /download-pdf
download_pdf(data) ==
  LET summary == Get(data, "summary", <<>>)
      level == RequestLevel(data)
      pdf == generate_pdf(summary, level)
  IN  [resp |-> IF pdf.raised # "" THEN InternalServerError(pdf.raised)
                ELSE Response(200, "pdf", <<>>, ""),
       outbound |-> <<>>, elements |-> pdf.elements]

\* the view function of GET /
index ==
  [resp |-> Response(200, "html", <<>>, ""), outbound |-> <<>>, elements |-> <<>>]

\* whether summarize posts to the API for this body
WillCall(data) ==
  RequestText(data) # <<>> /\ RequestLevel(data) \in DOMAIN SUMMARY_LEVELS

----------------------------------------------------------------------------
(* Flask-Limiter: Limiter(app, key_func=get_remote_address,                *)
(* default_limits=["50 per hour"]) and the @limiter.limit decorators.      *)
(* Fixed-window strategy over the in-memory storage: a key's window opens  *)
(* with its first hit and expires one period later; every hit is counted,  *)
(* a rejected one too.                                                     *)

DefaultPerHour == 50
SummarizePerMinute == 10
PdfPerMinute == 5

Clients == {"c1", "c2"}

Routes == {"index", "summarize", "download_pdf"}

Keys == Clients \X Routes

Minute == TicksPerMinute

Hour == 60 * TicksPerMinute

\* a decorated route carries its own limit, the others the default limit
RouteLimit(route) ==
  CASE route = "summarize" -> [amount |-> SummarizePerMinute, window |-> Minute]
    [] route = "download_pdf" -> [amount |-> PdfPerMinute, window |-> Minute]
    [] OTHER -> [amount |-> DefaultPerHour, window |-> Hour]

\* a plausible slip: one scope per client, shared by all its routes
KeyForShared(client, route) == <<client, "summarize">>

\* the storage key: the remote address and the endpoint
KeyFor(client, route) == <<client, route>>

NoEntry == [count |-> 0, ttl |-> 0]

\* storage.incr: an absent or expired key starts a new window
Hit(st, key, lim) ==
  [st EXCEPT ![key] = IF @.ttl = 0 THEN [count |-> 1, ttl |-> lim.window]
                      ELSE [count |-> @.count + 1, ttl |-> @.ttl]]

\* a plausible slip: an off-by-one in the comparison with the limit
AdmitsOneMore(count, lim) == count <= lim.amount + 1

\* FixedWindowRateLimiter.hit: the count after this hit is within the limit
Admits(count, lim) == count <= lim.amount

TooManyRequests ==
  [resp |-> Response(429, "rate_limit", <<>>, "ratelimit exceeded"),
   outbound |-> <<>>, elements |-> <<>>]

\* history: the latest calls' ages, saturating where a longer age is not needed
AgesKept == SummarizePerMinute + 2

AgeCap == 2 * TicksPerMinute

NoteCall(a) == SubSeq(<<0>> \o a, 1, IF Len(a) + 1 < AgesKept THEN Len(a) + 1 ELSE AgesKept)

Older(a) == [i \in 1..Len(a) |-> IF a[i] < AgeCap THEN a[i] + 1 ELSE AgeCap]

----------------------------------------------------------------------------
(* Actions *)

\* Flask's routing: the view function of the route answers the request
Dispatch(route, body, rep) ==
  CASE route = "summarize" -> summarize(body, rep)
    [] route = "download_pdf" -> download_pdf(body)
    [] OTHER -> index

\* one request: the limiter's before_request check, then the view function
Request(client, route, body, rep) ==
  LET key == KeyFor(client, route)
      lim == RouteLimit(route)
      st == Hit(storage, key, lim)
      admitted == Admits(st[key].count, lim)
      out == IF admitted THEN Dispatch(route, body, rep) ELSE TooManyRequests
  IN  /\ storage[key].ttl = 0 \/ storage[key].count < lim.amount + MaxOver
      /\ storage' = st
      /\ req' = [route |-> route, client |-> client, body |-> body]
      /\ reply' = IF admitted THEN rep ELSE NoReply
      /\ resp' = out.resp
      /\ outbound' = out.outbound
      /\ elements' = out.elements
      /\ returned' = IF out.resp.kind = "summary"
                     THEN returned \cup {out.resp.summary} ELSE returned
      /\ ages' = IF route = "summarize"
                 THEN [ages EXCEPT ![client] = NoteCall(@)] ELSE ages
      /\ UNCHANGED <<arg, ret>>

Index(client) == Request(client, "index", <<>>, NoReply)

Summarize(client, body) ==
  \E rep \in (IF WillCall(body) THEN Replies ELSE {NoReply}) :
    Request(client, "summarize", body, rep)

DownloadPdf(client, body) == Request(client, "download_pdf", body, NoReply)

\* one clock instant passes: windows run down, an expired key is dropped
Tick ==
  /\ storage' = [k \in Keys |-> IF storage[k].ttl <= 1 THEN NoEntry
                                ELSE [storage[k] EXCEPT !.ttl = @ - 1]]
  /\ ages' = [c \in Clients |-> Older(ages[c])]
  /\ UNCHANGED <<req, reply, resp, outbound, elements, returned, arg, ret>>

\* a direct call of sanitize_text returns
CallSanitize ==
  /\ ret = <<>>
  /\ ret' = <<sanitize_text(arg)>>
  /\ UNCHANGED <<storage, req, reply, resp, outbound, elements, returned, ages, arg>>

----------------------------------------------------------------------------
(* Specifications *)

NoRequest == [route |-> "none", client |-> "none", body |-> <<>>]

InitService ==
  /\ storage = [k \in Keys |-> NoEntry]
  /\ req = NoRequest
  /\ reply = NoReply
  /\ resp = Response(0, "none", <<>>, "")
  /\ outbound = <<>>
  /\ elements = <<>>
  /\ returned = {}
  /\ ages = [c \in Clients |-> <<>>]

Init == InitService /\ arg = <<>> /\ ret = <<>>

\* one client using both POST routes within one limiter window
TextBodies == Bodies("text", StringsOver(Alphabet, MaxBodyLen))

SummaryBodies == Bodies("summary", StringsOver(Alphabet, MaxBodyLen))

Next ==
  \/ \E body \in TextBodies : Summarize("c1", body)
  \/ \E body \in SummaryBodies : DownloadPdf("c1", body)

Spec == Init /\ [][Next]_vars

\* one client using POST /summarize with longer texts
LongTextBodies == Bodies("text", StringsOver(Alphabet, MaxTextLen))

NextSummarize == \E body \in LongTextBodies : Summarize("c1", body)

SpecSummarize == Init /\ [][NextSummarize]_vars

\* sanitize_text as a function of its argument
InitSanitize ==
  /\ InitService
  /\ arg \in StringsOver(WideAlphabet, MaxLen)
  /\ ret = <<>>

NextSanitize == CallSanitize

SpecSanitize == InitSanitize /\ [][NextSanitize]_vars

\* one client calling POST /summarize while the clock runs
RateBodies ==
  { [text |-> <<"a">>], [text |-> <<>>], [text |-> <<"a">>, level |-> "bogus"] }

NextRate ==
  \/ \E body \in RateBodies : Summarize("c1", body)
  \/ Tick

SpecRate == Init /\ [][NextRate]_vars

\* two clients using all three routes
RECURSIVE SumCounts(_, _)
SumCounts(st, keys) ==
  IF keys = {} THEN 0
  ELSE LET k == CHOOSE x \in keys : TRUE
       IN  st[k].count + SumCounts(st, keys \ {k})

FrameBodies == { [text |-> <<"a">>, summary |-> <<"a">>], <<>> }

NextFrame ==
  /\ SumCounts(storage, Keys) < MaxHits
  /\ \E c \in Clients :
       \/ Index(c)
       \/ \E body \in FrameBodies : Summarize(c, body)
       \/ \E body \in FrameBodies : DownloadPdf(c, body)

SpecFrame == Init /\ [][NextFrame]_vars

----------------------------------------------------------------------------
(* Properties *)

\* the text or summary field of the last request as the client submitted it
Submitted(field) == Get(req.body, field, <<>>)

AllWhitespace(s) == \A i \in 1..Len(s) : s[i] \in Whitespace

RateLimited == resp.status = 429

\* the user message of the one chat-completion request of the last request
Prompt == outbound[1].messages[2].content

Outcome == [resp |-> resp, outbound |-> outbound, elements |-> elements]

\* the last request's body with its level field set to `level`
WithLevel(level) ==
  [f \in DOMAIN req.body \cup {"level"} |->
     IF f = "level" THEN level ELSE req.body[f]]

\* what the view function of the last request's route answers to `data`
View(data, rep) == Dispatch(req.route, data, rep)

BodyParagraphs == {i \in 1..Len(elements) : elements[i].style = "body"}

Newlines(s) == {i \in 1..Len(s) : s[i] = NL}

\* C1: a POST /summarize that is not rate-limited and whose text is missing,
\* empty or whitespace-only is answered 400 with an error payload and sends
\* nothing to the chat-completion API, whatever its level field holds.
C1_EmptyTextRejected ==
  (req.route = "summarize" /\ ~RateLimited /\ AllWhitespace(Submitted("text")))
    => /\ resp.status = 400
       /\ resp.kind = "error"
       /\ resp.error # ""
       /\ outbound = <<>>

\* C1 witness: a two-character whitespace-only text sent with an unrecognized
\* level has been answered 400 without an outbound call.
C1_Witness ==
  /\ req.route = "summarize"
  /\ DOMAIN req.body = {"text", "level"}
  /\ req.body.level = "bogus"
  /\ req.body.text = <<SP, NL>>
  /\ resp.status = 400
  /\ outbound = <<>>

\* C3 as stated: for every accepted text and each level the user message of
\* the outbound request contains the text exactly as the client submitted it
\* and the level's label (here read leniently: in any letter case).
C3_LiteralTextAndLabel ==
  (req.route = "summarize" /\ outbound # <<>>)
    => /\ Contains(Prompt, Submitted("text"))
       /\ Contains(Lower(Prompt), Lower(SUMMARY_LEVELS[RequestLevel(req.body)]))

\* C3 amended: for every accepted text and each level the user message of the
\* outbound request contains the sanitized text (whitespace runs collapsed to
\* one space, ends trimmed) and the lower-cased label of the level.
C3_SanitizedTextAndLowerLabel ==
  (req.route = "summarize" /\ outbound # <<>>)
    => /\ RequestLevel(req.body) \in DOMAIN SUMMARY_LEVELS
       /\ Contains(Prompt, Strip(CollapseRuns(Submitted("text"))))
       /\ Contains(Prompt, Lower(SUMMARY_LEVELS[RequestLevel(req.body)]))
       /\ Len(outbound) = 1

\* C3 witness: a text that sanitizing changes has been summarized at level
\* detailed; the prompt holds the sanitized text, not the submitted one.
C3_Witness ==
  /\ req.route = "summarize"
  /\ DOMAIN req.body = {"text", "level"}
  /\ req.body.level = "detailed"
  /\ req.body.text = <<"a", NL>>
  /\ resp.status = 200
  /\ outbound # <<>>
  /\ Contains(Prompt, <<"c", "o", "m", "p", "r", "e", "h", "e", "n", "s", "i", "v", "e",
                        SP, "a", "n", "a", "l", "y", "s", "i", "s", ":", NL, NL, "a">>)
  /\ ~Contains(Prompt, req.body.text)

\* C4 as stated: a POST /summarize or POST /download-pdf with a level outside
\* short, medium, detailed is either rejected with a 400 and an error
\* payload, or handled exactly as the same request with level medium.
C4_UnknownLevelPolicy ==
  ( /\ req.route \in {"summarize", "download_pdf"}
    /\ "level" \in DOMAIN req.body
    /\ ~RateLimited )
    => (req.body.level \notin DOMAIN SUMMARY_LEVELS
          => \/ resp.status = 400 /\ resp.kind = "error"
             \/ \E rep \in Replies : Outcome = View(WithLevel("medium"), rep))

\* C5: on both POST routes a body without a level field has the outcome
\* (response, outbound prompt, PDF elements) of the same body with level
\* medium.
C5_AbsentLevelIsMedium ==
  ( /\ req.route \in {"summarize", "download_pdf"}
    /\ "level" \notin DOMAIN req.body
    /\ ~RateLimited )
    => Outcome = View(WithLevel("medium"), reply)

\* C5 witness: a text sent without a level has been summarized with the
\* prompt of level medium.
C5_Witness ==
  /\ req.route = "summarize"
  /\ DOMAIN req.body = {"text"}
  /\ resp.status = 200
  /\ outbound # <<>>
  /\ Contains(Prompt, Lower(StandardSummary))

\* C6: what sanitize_text returns has no two consecutive whitespace
\* characters and no leading or trailing whitespace, and sanitize_text maps
\* it to itself.
C6_SanitizeNormalForm ==
  ret # <<>>
    => LET out == ret[1]
       IN  /\ \A i \in 1..Len(out) :
                out[i] \in Whitespace => i # 1 /\ i # Len(out) /\ out[i + 1] \notin Whitespace
           /\ sanitize_text(out) = out

\* C6 witness: a call whose argument holds a run of two different whitespace
\* characters has returned.
C6_Witness ==
  /\ arg = <<"a", TAB, NL, "a">>
  /\ ret = << <<"a", SP, "a">> >>

\* C7 as stated: for an empty summary the element list holds no body
\* paragraph; in general there are as many body paragraphs as text segments,
\* none for the empty summary.
C7_EmptySummaryNoBody ==
  (req.route = "download_pdf" /\ resp.kind = "pdf")
    => Cardinality(BodyParagraphs)
         = IF Submitted("summary") = <<>> THEN 0
           ELSE Cardinality(Newlines(Submitted("summary"))) + 1

C9_AtMostOneCall ==
  req.route = "summarize"
    => /\ Len(outbound) <= 1
       /\ ( /\ ~RateLimited
            /\ ~AllWhitespace(Submitted("text"))
            /\ RequestLevel(req.body) \in DOMAIN SUMMARY_LEVELS )
            => Len(outbound) = 1
       /\ (Len(outbound) >= 1 /\ reply.kind # "ok")
            => resp.status \in 500..599 /\ resp.kind # "summary"

\* C9 witness: the one chat-completion request of a summarize call has timed
\* out and the call has been answered 500.
C9_Witness ==
  /\ req.route = "summarize"
  /\ reply.kind = "timeout"
  /\ Len(outbound) = 1
  /\ resp.status = 500

\* the ages of client c1's latest /summarize calls, newest first
CallAges == ages["c1"]

\* the last request is the 11th /summarize call of c1 within one minute
EleventhWithinMinute ==
  /\ req.route = "summarize"
  /\ Len(CallAges) >= SummarizePerMinute + 1
  /\ CallAges[1] = 0
  /\ CallAges[SummarizePerMinute + 1] < TicksPerMinute

\* c1 made no /summarize call in the minute before the first of those 11
QuietMinuteBefore ==
  Len(CallAges) >= SummarizePerMinute + 2
    => CallAges[SummarizePerMinute + 2]
         >= CallAges[SummarizePerMinute + 1] + TicksPerMinute

\* C2 as stated: the 11th POST /summarize call of one client within one
\* minute is rejected by the limiter and sends nothing to the API, however
\* the calls fall relative to the limiter's windows.
C2_EleventhRejected ==
  EleventhWithinMinute => resp.status = 429 /\ outbound = <<>>

\* C2 amended: the 11th POST /summarize call of one client within one minute
\* is rejected by the limiter and sends nothing to the API, whatever the
\* first ten calls returned, provided the client made no /summarize call in
\* the minute before the first of the 11 (so that all 11 fall into the
\* window the first of them opens).
C2_EleventhRejectedAfterQuiet ==
  (EleventhWithinMinute /\ QuietMinuteBefore)
    => resp.status = 429 /\ resp.kind = "rate_limit" /\ outbound = <<>>

\* C2 witness: after an earlier call and a quiet minute, the 11th call
\* within one minute has been rejected.
C2_Witness ==
  /\ EleventhWithinMinute
  /\ Len(CallAges) = SummarizePerMinute + 2
  /\ QuietMinuteBefore
  /\ CallAges[SummarizePerMinute + 1] = TicksPerMinute - 1
  /\ resp.status = 429

\* the limit of the route, as the decorators and default_limits give it
Budget(route) ==
  CASE route = "summarize" -> SummarizePerMinute
    [] route = "download_pdf" -> PdfPerMinute
    [] OTHER -> DefaultPerHour

\* a request counts against the key of its own client and route only, and is
\* rejected exactly when that key's count had reached the route's limit
CountsOwnKeyOnly ==
  LET own == <<req'.client, req'.route>>
  IN  /\ \A k \in Keys \ {own} : storage'[k] = storage[k]
      /\ storage'[own].count = storage[own].count + 1
      /\ (resp'.status = 429) <=> (storage[own].count >= Budget(req'.route))

\* C10: budgets are kept per client address and route: a request changes
\* only the counter of its own client and route and is rejected only on that
\* counter, so one client never exhausts another's budget, /summarize and
\* /download-pdf (5 per minute) never draw on each other, and the default 50
\* per hour counts requests to GET / alone.
C10_BudgetPerClientAndRoute == [][CountsOwnKeyOnly]_vars

\* C10 witness: client c2 has exhausted its /download-pdf budget and client
\* c1, who has used /summarize and GET /, has been served a PDF.
C10_Witness ==
  /\ storage[<<"c2", "download_pdf">>].count = PdfPerMinute + 1
  /\ storage[<<"c1", "summarize">>].count + storage[<<"c1", "index">>].count = 1
  /\ storage[<<"c1", "download_pdf">>].count = 1
  /\ req.client = "c1"
  /\ req.route = "download_pdf"
  /\ resp.status = 200

=============================================================================
